---- MODULE Spec2Model ----
(***************************************************************************)
(* Model of tools/analyze-vtable-impact.py: the function-pointer impact    *)
(* analysis.  The run is a batch pipeline                                  *)
(*   find_function_pointers -> get_all_symbols -> build_call_graph ->      *)
(*   calculate_reachable_from('main') -> impact loop -> sort               *)
(* and each stage (or each iteration of a stage's loop) is one action.     *)
(* The outputs of the external tools (grep, nm, objdump) are the inputs of *)
(* the actions.  calculate_reachable_from is additionally stepped loop     *)
(* iteration by loop iteration under SpecReach, on arbitrary small graphs. *)
(***************************************************************************)
EXTENDS Integers, Sequences, FiniteSets, TLC

VARIABLES
    pc,                  \* position of the run in analyze_impact / the BFS
    func_refs,           \* find_function_pointers: ordered dict, as a sequence of [function, references]
    discarded,           \* identifiers matched by the regex and skipped by the isupper() filter
    symbols_with_size,   \* get_all_symbols: dict name -> size
    todo,                \* build_call_graph: symbols the for loop has not reached yet
    call_graph,          \* dict name -> set of callee names
    last_disasm,         \* the latest get_calls_from_function call: symbol, outcome, captured call targets
    failed,              \* symbols whose objdump call raised (failure or timeout)
    reachable_from_main, \* analyze_impact: reachable set of the entry root
    idx,                 \* impact loop: position in func_refs
    impacts,             \* analyze_impact: list of impact dicts
    root,                \* calculate_reachable_from: argument func
    queue,               \* calculate_reachable_from: deque
    reachable,           \* calculate_reachable_from: visited set
    env,                 \* main: whether the binary path and the source directory exist
    out,                 \* lines printed to stdout, the report stream
    err,                 \* lines printed to stderr, the diagnostic stream
    grep_out,            \* the grep output, kept where a run is compared with its input
    nm_out,              \* the nm output, kept where a run is compared with its input
    memo,                \* root and result of the first finished calculate_reachable_from call
    interleaved,         \* a call for another root has finished since
    patch_config,        \* apply-patches.py: patch_config['patches'], a list of [file, patches]
    disk,                \* apply-patches.py: the files under submodule_dir
    file_idx,            \* apply_patches: position of the outer loop
    patch_idx,           \* apply_patches: position of the inner loop
    lines,               \* apply_patches: the lines of the file being patched
    file_patches_applied, \* apply_patches: counter of the current file
    patches_applied,     \* apply_patches: counter of the run
    returned,            \* the value apply_patches returned
    original_lines,      \* apply_patches: the copy of the lines taken when the file was read
    last_patch,          \* the latest find_and_patch_line call: pattern, action and returned pair
    disk0,               \* the files as they were when the run started
    num_tests,           \* run_test_suite: len(tests)
    test_i,              \* run_test_suite: i, the number of the test in the file
    test,                \* run_test_suite: the test of the current iteration
    test_dir,            \* the repository directory: the step commands run in it since it was created
    step_idx,            \* run_test_suite: position of the loop over the steps
    repeat_idx,          \* run_test_suite: position of the loop over the repeats
    step_results,        \* run_test_suite: the steps recorded for the report
    test_failed_during_setup, \* run_test_suite: a step of the current test failed
    binary_outputs,      \* what each binary printed in each mode of the current test
    mode_results,        \* run_test_suite: the result of each mode of the current test
    tests_passed,        \* run_test_suite: the counter passed
    tests_failed,        \* run_test_suite: the counter failed
    test_results,        \* run_test_suite: the entries handed to the reports
    success              \* the value run_test_suite returned

vars == <<pc, func_refs, discarded, symbols_with_size, todo, call_graph,
          last_disasm, failed, reachable_from_main, idx, impacts,
          root, queue, reachable, env, out, err, grep_out, nm_out,
          memo, interleaved, patch_config, disk, file_idx, patch_idx, lines,
          file_patches_applied, patches_applied, returned,
          original_lines, last_patch, disk0,
          num_tests, test_i, test, test_dir, step_idx, repeat_idx, step_results,
          test_failed_during_setup, binary_outputs, mode_results,
          tests_passed, tests_failed, test_results, success>>

ioVars == <<env, out, err>>

rawVars == <<grep_out, nm_out>>

memoVars == <<memo, interleaved>>

patchVars == <<patch_config, disk, file_idx, patch_idx, lines,
               file_patches_applied, patches_applied, returned,
          original_lines, last_patch, disk0>>

testLocals == <<test, step_idx, repeat_idx, step_results, test_failed_during_setup,
                binary_outputs, mode_results>>

testVars == <<num_tests, test_i, test_dir, tests_passed, tests_failed, test_results,
              success, testLocals>>

pipeVars == <<func_refs, discarded, symbols_with_size, todo, last_disasm,
              failed, reachable_from_main, idx, impacts>>

bfsVars == <<root, queue, reachable>>

----------------------------------------------------------------------------
(* Bounds of the model *)

MaxRefs == 2     \* &identifier tokens in the grep output
MaxSyms == 3     \* symbols in the catalog
MaxSize == 2     \* largest symbol size nm reports
MaxCalls == 1    \* instruction lines in one objdump output
MaxEdges == 3    \* edges of a graph handed to calculate_reachable_from alone
MaxNmLines == 2  \* lines of an nm output handed to get_all_symbols alone
MaxPatchFiles == 2  \* file entries of patches.yaml
MaxPatches == 2     \* patches of all file entries together
MaxFileLines == 2   \* lines of a file that is patched
MaxTests == 2       \* tests of the test file
MaxSteps == 2       \* steps of a test
MaxRepeat == 2      \* repeat count of a step
MaxBinaries == 2    \* binaries under test, the baseline first

----------------------------------------------------------------------------
(* Identifiers are sequences of characters *)

UpperChars == {"C", "B"}
LowerChars == {"m", "a", "i", "n", "f", "x"}
DigitChars == {"1"}

main == <<"m", "a", "i", "n">>
fa == <<"f", "a">>
CB == <<"C", "B", "1">>
U1 == <<"_", "1">>
x == <<"x">>

Names == {main, fa, CB, U1}
Tokens == Names \cup {x}
NoName == <<>>

Range(s) == {s[i] : i \in 1..Len(s)}

\* r'&([a-zA-Z_][a-zA-Z0-9_]+)' applied to one &token
IdentRegexMatches(tok) ==
    /\ Len(tok) >= 2
    /\ tok[1] \in UpperChars \cup LowerChars \cup {"_"}
    /\ \A i \in 2..Len(tok) : tok[i] \in UpperChars \cup LowerChars \cup DigitChars \cup {"_"}

\* a filter that takes only identifiers made of upper-case letters alone
IsUpperLettersOnly(name) ==
    \A i \in 1..Len(name) : name[i] \in UpperChars

\* str.isupper(): at least one cased character and no lower-case one
IsUpper(name) ==
    /\ \E i \in 1..Len(name) : name[i] \in UpperChars \cup LowerChars
    /\ \A i \in 1..Len(name) : name[i] \notin LowerChars

----------------------------------------------------------------------------
(* find_function_pointers *)

\* one line of grep -rn output whose content holds these &tokens, in order
GrepLines == {<<t>> : t \in {u \in Tokens : IdentRegexMatches(u)}}
             \cup {<<t, u>> : t \in Tokens, u \in {v \in Tokens : IdentRegexMatches(v)}}

RECURSIVE TokenCount(_)
TokenCount(contents) ==
    IF contents = <<>> THEN 0 ELSE Len(Head(contents)) + TokenCount(Tail(contents))

\* grep prints file:line:content; here every line is line i of one file
Located(contents) ==
    [i \in 1..Len(contents) |-> [file |-> "a.c", line |-> i, content |-> contents[i]]]

GrepOutputs ==
    {Located(o) : o \in {c \in UNION {[1..n -> GrepLines] : n \in 0..MaxRefs} :
                              TokenCount(c) <= MaxRefs}}

Files == {"a.c", "b.c"}

\* grep -rn output over several files: the lines of one file stand together
\* in ascending line order, the files in the order the directory walk meets them
GrepOutputsFiles ==
    {o \in UNION {[1..n -> [file : Files, line : 1..MaxRefs,
                           content : {<<t>> : t \in {u \in Tokens : IdentRegexMatches(u)}}]]
                  : n \in 0..MaxRefs} :
        \A i, j \in 1..Len(o) :
            (i < j /\ o[i].file = o[j].file) =>
                /\ o[i].line < o[j].line
                /\ \A k \in i..j : o[k].file = o[i].file}

KeyIndex(refs, name) ==
    IF \E i \in 1..Len(refs) : refs[i].function = name
    THEN CHOOSE i \in 1..Len(refs) : refs[i].function = name
    ELSE 0

\* function_refs[func_name].append(loc) on a defaultdict(list)
AppendRef(refs, name, loc) ==
    LET k == KeyIndex(refs, name) IN
    IF k = 0
    THEN Append(refs, [function |-> name, references |-> <<loc>>])
    ELSE [refs EXCEPT ![k].references = Append(@, loc)]

RECURSIVE ScanLine(_, _, _, _)
ScanLine(acc, content, j, loc) ==
    IF j > Len(content) THEN acc
    ELSE LET tok == content[j] IN
         IF ~IdentRegexMatches(tok)
         THEN ScanLine(acc, content, j + 1, loc)
         ELSE IF ~IsUpper(tok)
              THEN ScanLine([acc EXCEPT !.refs = AppendRef(@, tok, loc)], content, j + 1, loc)
              ELSE ScanLine([acc EXCEPT !.skipped = @ \cup {tok}], content, j + 1, loc)

RECURSIVE ScanLines(_, _, _)
ScanLines(acc, output, i) ==
    IF i > Len(output) THEN acc
    ELSE ScanLines(ScanLine(acc, output[i].content, 1, <<output[i].file, output[i].line>>),
                   output, i + 1)

FindFunctionPointers(output) ==
    ScanLines([refs |-> <<>>, skipped |-> {}], output, 1)

Keys(refs) == {refs[i].function : i \in 1..Len(refs)}

----------------------------------------------------------------------------
(* get_all_symbols *)

NoSize == 0

\* one line of nm -S --defined-only: [size] type name
NmLines == [name : Names, type : {"T", "t", "D"}, size : {NoSize} \cup (1..MaxSize)]

\* the body of the for loop over the nm lines
ParseNmLine(dict, line) ==
    IF line.size # NoSize /\ line.type \in {"T", "t"}
    THEN (line.name :> line.size) @@ dict
    ELSE IF line.size = NoSize /\ line.type \in {"T", "t"}
         THEN (line.name :> 1) @@ dict
         ELSE dict

RECURSIVE ParseNmLines(_, _, _)
ParseNmLines(dict, output, i) ==
    IF i > Len(output) THEN dict
    ELSE ParseNmLines(ParseNmLine(dict, output[i]), output, i + 1)

\* lines 61-80 on a whole nm output
GetAllSymbols(output) == ParseNmLines(<<>>, output, 1)

NmOutputs == UNION {[1..n -> NmLines] : n \in 0..MaxNmLines}

symbols == DOMAIN symbols_with_size

----------------------------------------------------------------------------
(* get_calls_from_function and build_call_graph *)

\* one line of objdump -d output: a direct call to <target>, or any other line
DisasmLines == [op : {"call"}, target : Names] \cup {[op |-> "other", target |-> NoName]}

\* what the objdump child does: it hangs, it exits with an error (ok = FALSE),
\* or it exits with the lines it printed
DisasmResults ==
    [ok : {FALSE}, hung : BOOLEAN, lines : {<<>>}]
    \cup [ok : {TRUE}, hung : {FALSE}, lines : UNION {[1..n -> DisasmLines] : n \in 0..MaxCalls}]

NoDisasm == [func |-> NoName, ok |-> TRUE, hung |-> FALSE, called |-> {}]

\* lines 85-88: subprocess.run with check=True, with or without a timeout
SubprocessRun(result, has_timeout) ==
    IF result.hung THEN (IF has_timeout THEN "TimeoutExpired" ELSE "blocks")
    ELSE IF ~result.ok THEN "CalledProcessError"
    ELSE "returns"

\* the names captured by r'callq?\s+[0-9a-f]+\s+<([^@>]+)' in the output
Captured(result) ==
    {result.lines[i].target : i \in {j \in 1..Len(result.lines) : result.lines[j].op = "call"}}

\* the check of line 95 without the self-call exclusion
KeepsCallWithSelf(called, func_name, syms) ==
    called \in syms

\* the check of line 95 without the catalog lookup
KeepsCallAnyTarget(called, func_name, syms) ==
    called # func_name

\* the check of line 95 against the symbols already in the graph
KeepsCallIfProcessed(called, func_name, syms) ==
    called \in DOMAIN call_graph /\ called # func_name

\* line 95: called in symbols and called != func_name
KeepsCall(called, func_name, syms) ==
    called \in syms /\ called # func_name

\* get_calls_from_function with an except clause that lets the failure through
GetCallsUncaught(func_name, result, syms) ==
    IF SubprocessRun(result, TRUE) # "returns"
    THEN [raised |-> TRUE, blocked |-> FALSE, calls |-> {}]
    ELSE [raised |-> FALSE, blocked |-> FALSE,
          calls |-> {called \in Captured(result) : KeepsCall(called, func_name, syms)}]

\* get_calls_from_function with an objdump call that has no timeout
GetCallsNoTimeout(func_name, result, syms) ==
    LET ran == SubprocessRun(result, FALSE) IN
    IF ran = "blocks" THEN [raised |-> FALSE, blocked |-> TRUE, calls |-> {}]
    ELSE IF ran # "returns" THEN [raised |-> FALSE, blocked |-> FALSE, calls |-> {}]
    ELSE [raised |-> FALSE, blocked |-> FALSE,
          calls |-> {called \in Captured(result) : KeepsCall(called, func_name, syms)}]

\* lines 84-99: the call has timeout=5, and the bare except turns every
\* failure of the objdump call (nonzero exit, timeout) into an empty result;
\* nothing is raised
GetCallsFromFunction(func_name, result, syms) ==
    LET ran == SubprocessRun(result, TRUE) IN
    IF ran = "blocks" THEN [raised |-> FALSE, blocked |-> TRUE, calls |-> {}]
    ELSE IF ran # "returns" THEN [raised |-> FALSE, blocked |-> FALSE, calls |-> {}]
    ELSE [raised |-> FALSE, blocked |-> FALSE,
          calls |-> {called \in Captured(result) : KeepsCall(called, func_name, syms)}]

EmptyDict == [n \in {} |-> {}]

----------------------------------------------------------------------------
(* calculate_reachable_from *)

\* call_graph.get(current, set())
Calls(graph, s) == IF s \in DOMAIN graph THEN graph[s] ELSE {}

\* the orders in which a for loop can iterate a set
Perms(S) == {f \in [1..Cardinality(S) -> S] : \A i, j \in 1..Cardinality(S) : f[i] = f[j] => i = j}

SetToSeq(S) == CHOOSE f \in Perms(S) : TRUE

NotIn(seq, S) == SelectSeq(seq, LAMBDA c : c \notin S)

\* a loop body that marks the callees visited when it enqueues them
LoopBodyMarkOnEnqueue(q, r, graph, order) ==
    LET current == Head(q) IN
    IF current \in r
    THEN [queue |-> Tail(q), reachable |-> r, graph |-> graph]
    ELSE [queue |-> Tail(q) \o NotIn(order, r \cup {current}),
          reachable |-> r \cup {current} \cup Range(order),
          graph |-> graph]

\* a loop body that leaves the for loop after the first callee
LoopBodyFirstCallee(q, r, graph, order) ==
    LET current == Head(q) IN
    IF current \in r
    THEN [queue |-> Tail(q), reachable |-> r, graph |-> graph]
    ELSE [queue |-> Tail(q) \o NotIn(IF order = <<>> THEN <<>> ELSE <<order[1]>>, r \cup {current}),
          reachable |-> r \cup {current},
          graph |-> graph]

\* a loop body without the visited checks of lines 125 and 129
LoopBodyNoVisitedCheck(q, r, graph, order) ==
    LET current == Head(q) IN
    [queue |-> Tail(q) \o order, reachable |-> r \cup {current}, graph |-> graph]

\* a loop body that looks the callees up with call_graph.setdefault(current, set())
LoopBodySetDefault(q, r, graph, order) ==
    LET current == Head(q) IN
    IF current \in r
    THEN [queue |-> Tail(q), reachable |-> r, graph |-> graph]
    ELSE [queue |-> Tail(q) \o NotIn(order, r \cup {current}),
          reachable |-> r \cup {current},
          graph |-> IF current \in DOMAIN graph THEN graph ELSE (current :> {}) @@ graph]

\* one iteration of the while loop (lines 123-130); order is the iteration
\* order of the callee set of the dequeued symbol.  The dict is only read
\* (call_graph.get), so the iteration hands it on as it found it
LoopBody(q, r, graph, order) ==
    LET current == Head(q) IN
    IF current \in r
    THEN [queue |-> Tail(q), reachable |-> r, graph |-> graph]
    ELSE [queue |-> Tail(q) \o NotIn(order, r \cup {current}),
          reachable |-> r \cup {current},
          graph |-> graph]

\* a traversal that is only started for a root with an entry in the graph
BfsStartKnownRoot(func) ==
    [queue |-> IF func \in DOMAIN call_graph THEN <<func>> ELSE <<>>, reachable |-> {}]

\* a traversal whose visited set outlives the call
BfsStartKeepVisited(func) == [queue |-> <<func>>, reachable |-> reachable]

\* lines 119-120: a new visited set and a queue holding the root
BfsStart(func) == [queue |-> <<func>>, reachable |-> {}]

\* lines 122-132: the loop run to the end; the visited set and the dict after it
RECURSIVE BfsRun(_, _, _)
BfsRun(q, r, graph) ==
    IF q = <<>> THEN [reachable |-> r, graph |-> graph]
    ELSE LET st == LoopBody(q, r, graph, SetToSeq(Calls(graph, Head(q))))
         IN BfsRun(st.queue, st.reachable, st.graph)

CalculateReachableFrom(func, graph) ==
    BfsRun(BfsStart(func).queue, BfsStart(func).reachable, graph).reachable

\* the dict as a call of calculate_reachable_from leaves it
GraphAfterReachable(func, graph) ==
    BfsRun(BfsStart(func).queue, BfsStart(func).reachable, graph).graph

----------------------------------------------------------------------------
(* analyze_impact: the impact loop and the ranking *)

\* symbols_with_size.get(f, 0)
SizeOf(f) == IF f \in symbols THEN symbols_with_size[f] ELSE 0

RECURSIVE SumSizes(_)
SumSizes(S) ==
    IF S = {} THEN 0
    ELSE LET f == CHOOSE g \in S : TRUE IN SizeOf(f) + SumSizes(S \ {f})

\* the test of line 171 without the entry-root exclusion
IsCandidateNoEntryCheck(func_name) ==
    func_name \in symbols

\* line 171
IsCandidate(func_name) ==
    func_name \in symbols /\ func_name \notin reachable_from_main

\* an impact entry whose traversal starts from the visited set of the entry root
ImpactEntrySharedVisited(ref) ==
    LET reach == BfsRun(<<ref.function>>, reachable_from_main, call_graph).reachable
                 \ reachable_from_main IN
    [function |-> ref.function,
     reachable_count |-> Cardinality(reach),
     total_bytes |-> SumSizes(reach),
     references |-> ref.references]

\* lines 172-180
ImpactEntry(ref) ==
    LET reach == CalculateReachableFrom(ref.function, call_graph) IN
    [function |-> ref.function,
     reachable_count |-> Cardinality(reach),
     total_bytes |-> SumSizes(reach),
     references |-> ref.references]

\* lines 167-180: the impact list the loop builds from an ordered dict of references
RECURSIVE ImpactsFrom(_, _, _)
ImpactsFrom(list, refs, i) ==
    IF i > Len(refs) THEN list
    ELSE ImpactsFrom(IF IsCandidate(refs[i].function)
                     THEN Append(list, ImpactEntry(refs[i]))
                     ELSE list,
                     refs, i + 1)

\* insertion behind every entry whose key is not smaller: a stable
\* descending order, as list.sort(key=..., reverse=True) produces
InsertDesc(sorted, e) ==
    LET k == Cardinality({i \in 1..Len(sorted) : sorted[i].total_bytes >= e.total_bytes})
    IN SubSeq(sorted, 1, k) \o <<e>> \o SubSeq(sorted, k + 1, Len(sorted))

RECURSIVE SortFrom(_, _, _)
SortFrom(sorted, list, i) ==
    IF i > Len(list) THEN sorted
    ELSE SortFrom(InsertDesc(sorted, list[i]), list, i + 1)

\* a sort that forgets reverse=True
InsertAsc(sorted, e) ==
    LET k == Cardinality({i \in 1..Len(sorted) : sorted[i].total_bytes <= e.total_bytes})
    IN SubSeq(sorted, 1, k) \o <<e>> \o SubSeq(sorted, k + 1, Len(sorted))

RECURSIVE SortFromAsc(_, _, _)
SortFromAsc(sorted, list, i) ==
    IF i > Len(list) THEN sorted
    ELSE SortFromAsc(InsertAsc(sorted, list[i]), list, i + 1)

SortAscending(list) == SortFromAsc(<<>>, list, 1)

\* line 183
SortByTotalBytes(list) == SortFrom(<<>>, list, 1)

----------------------------------------------------------------------------
(* analyze_impact: the report, lines 185-238 *)

TopRows == 30
TopDetails == 5
DetailRefs == 3

NoLocation == <<"", 0>>

Line(kind) ==
    [kind |-> kind, function |-> NoName, reach |-> 0, size |-> 0, refs |-> 0,
     location |-> NoLocation]

Take(seq, n) == SubSeq(seq, 1, IF Len(seq) < n THEN Len(seq) ELSE n)

\* line 192
HasSizes(dict) ==
    \E f \in DOMAIN dict : dict[f] > 1

\* lines 194-197
ColumnsLine(has_sizes) ==
    Line(IF has_sizes THEN "columns: Function Reach Bytes References"
         ELSE "columns: Function Reach References Location")

\* lines 201-213
ReportRow(impact, has_sizes) ==
    [kind |-> IF has_sizes THEN "row: func reach size refs location"
              ELSE "row: func reach refs location",
     function |-> impact.function,
     reach |-> impact.reachable_count,
     size |-> IF has_sizes THEN impact.total_bytes ELSE 0,
     refs |-> Len(impact.references),
     location |-> impact.references[1]]

\* lines 231-238
DetailLines(impact) ==
    <<[kind |-> "detail", function |-> impact.function, reach |-> impact.reachable_count,
       size |-> impact.total_bytes, refs |-> Len(impact.references),
       location |-> NoLocation]>>
    \o [k \in 1..Len(Take(impact.references, DetailRefs)) |->
          [Line("detail reference") EXCEPT !.location = impact.references[k]]]
    \o (IF Len(impact.references) > DetailRefs
        THEN <<[Line("... and N more") EXCEPT !.refs = Len(impact.references) - DetailRefs]>>
        ELSE <<>>)
    \o <<Line("")>>

RECURSIVE Flatten(_)
Flatten(seqs) == IF seqs = <<>> THEN <<>> ELSE Head(seqs) \o Flatten(Tail(seqs))

\* lines 185-238
ReportLines(list, dict) ==
    LET has_sizes == HasSizes(dict) IN
    <<Line(""), Line("TOP FUNCTION POINTERS BY ELIMINATION POTENTIAL"), Line(""),
      ColumnsLine(has_sizes)>>
    \o [k \in 1..Len(Take(list, TopRows)) |-> ReportRow(list[k], has_sizes)]
    \o <<Line(""), Line("Legend:")>>
    \o (IF has_sizes THEN <<Line("Bytes = Total bytes that could be eliminated")>> ELSE <<>>)
    \o <<Line(""), Line("DETAILED ANALYSIS - TOP 5 CANDIDATES"), Line("")>>
    \o Flatten([k \in 1..Len(Take(list, TopDetails)) |-> DetailLines(list[k])])

----------------------------------------------------------------------------
(* main, lines 240-258 *)

\* main without the check of the source directory
MainNoSourceCheck(argc, e) ==
    IF argc < 2
    THEN [pc |-> "exit1", err |-> <<"Usage: analyze-vtable-impact.py <binary> [git-source-dir]">>]
    ELSE IF ~e.binary
         THEN [pc |-> "exit1", err |-> <<"Error: Binary not found">>]
         ELSE [pc |-> "analyze", err |-> <<>>]

\* lines 242-258: where main goes and what it prints to stderr
MainOutcome(argc, e) ==
    IF argc < 2
    THEN [pc |-> "exit1", err |-> <<"Usage: analyze-vtable-impact.py <binary> [git-source-dir]">>]
    ELSE IF ~e.binary
         THEN [pc |-> "exit1", err |-> <<"Error: Binary not found">>]
         ELSE IF ~e.git_dir
              THEN [pc |-> "exit1", err |-> <<"Error: Git source directory not found">>]
              ELSE [pc |-> "analyze", err |-> <<>>]

----------------------------------------------------------------------------
(* The run of main and analyze_impact *)

NoMemo == [root |-> NoName, result |-> {}]

NoPatch == [pattern |-> <<>>, action |-> "", success |-> FALSE, line_num |-> 0]

\* apply_patches has not been entered
PatchIdleLocals ==
    /\ file_idx = 0 /\ patch_idx = 0 /\ lines = <<>>
    /\ file_patches_applied = 0 /\ patches_applied = 0 /\ returned = 0
    /\ original_lines = <<>> /\ last_patch = NoPatch

Idle ==
    /\ func_refs = <<>> /\ discarded = {} /\ symbols_with_size = EmptyDict
    /\ todo = {} /\ last_disasm = NoDisasm /\ failed = {}
    /\ reachable_from_main = {} /\ idx = 0 /\ impacts = <<>>

\* apply-patches.py is not running
PatchIdle ==
    /\ patch_config = <<>> /\ disk = <<>> /\ disk0 = <<>>
    /\ PatchIdleLocals

\* test.get('expected_large', None)
NoExpected == <<"None">>

NoTest == [reset |-> FALSE, steps |-> <<>>, custom |-> FALSE,
           expected |-> <<>>, expected_large |-> NoExpected]

TestIdleLocals ==
    /\ test = NoTest /\ step_idx = 0 /\ repeat_idx = 0
    /\ step_results = <<>> /\ test_failed_during_setup = FALSE
    /\ binary_outputs = <<>> /\ mode_results = <<>>

\* run_tests.py is not running
TestIdle ==
    /\ num_tests = 0 /\ test_i = 0 /\ test_dir = {}
    /\ tests_passed = 0 /\ tests_failed = 0 /\ test_results = <<>>
    /\ success = FALSE
    /\ TestIdleLocals

Init ==
    /\ pc = "main"
    /\ Idle
    /\ call_graph = EmptyDict
    /\ root = NoName /\ queue = <<>> /\ reachable = {}
    /\ env \in [binary : BOOLEAN, git_dir : BOOLEAN]
    /\ out = <<>> /\ err = <<>>
    /\ grep_out = <<>> /\ nm_out = <<>>
    /\ memo = NoMemo /\ interleaved = FALSE
    /\ TestIdle
    /\ PatchIdle

\* lines 242-258
Main ==
    /\ pc = "main"
    /\ \E argc \in 1..3 :
          /\ pc' = MainOutcome(argc, env).pc
          /\ err' = err \o MainOutcome(argc, env).err
    /\ UNCHANGED <<pipeVars, call_graph, bfsVars, env, out, rawVars, memoVars, patchVars, testVars>>

\* lines 136-142
Header ==
    /\ pc = "analyze"
    /\ out' = out \o <<Line("Function Pointer Impact Analysis"), Line("")>>
    /\ err' = Append(err, "1. Finding function pointer references in source...")
    /\ pc' = "scan"
    /\ UNCHANGED <<pipeVars, call_graph, bfsVars, env, rawVars, memoVars, patchVars, testVars>>

\* lines 143-148 for a grep output of the given set
ScanFrom(outputs, keep) ==
    /\ pc = "scan"
    /\ \E output \in outputs :
          LET r == FindFunctionPointers(output) IN
          /\ func_refs' = r.refs
          /\ discarded' = r.skipped
          /\ grep_out' = IF keep THEN output ELSE grep_out
    /\ out' = Append(out, Line(""))
    /\ err' = err \o <<"Found N unique function pointers", "2. Extracting symbols from binary...">>
    /\ pc' = "nm"
    /\ UNCHANGED <<symbols_with_size, todo, call_graph, last_disasm, failed,
                   reachable_from_main, idx, impacts, bfsVars, env, nm_out, memoVars, patchVars, testVars>>

Scan == ScanFrom(GrepOutputs, FALSE)

\* line 58: nm exits nonzero and check=True raises CalledProcessError, which
\* nothing catches
NmFail ==
    /\ pc = "nm"
    /\ symbols_with_size = EmptyDict
    /\ err' = Append(err, "Traceback (most recent call last): CalledProcessError")
    /\ pc' = "crashed"
    /\ UNCHANGED <<pipeVars, call_graph, bfsVars, env, out, rawVars, memoVars, patchVars, testVars>>

\* lines 62-78, one line of the nm output
NmLineFrom(nm_lines) ==
    /\ pc = "nm"
    /\ Cardinality(symbols) < MaxSyms
    /\ \E line \in nm_lines : symbols_with_size' = ParseNmLine(symbols_with_size, line)
    /\ UNCHANGED <<pc, func_refs, discarded, todo, call_graph, last_disasm, failed,
                   reachable_from_main, idx, impacts, bfsVars, ioVars, rawVars, memoVars, patchVars, testVars>>

NmLine == NmLineFrom(NmLines)

\* lines 80, 150-156, 103-104
NmDone ==
    /\ pc = "nm"
    /\ pc' = "build"
    /\ todo' = symbols
    /\ call_graph' = EmptyDict
    /\ out' = Append(out, Line(""))
    /\ err' = err \o <<"Found N functions in binary", "3. Building call graph...",
                       "Building call graph (this may take a minute)...">>
    /\ UNCHANGED <<func_refs, discarded, symbols_with_size, last_disasm, failed,
                   reachable_from_main, idx, impacts, bfsVars, env, rawVars, memoVars, patchVars, testVars>>

\* lines 106-109, one iteration of the loop over the symbol set; an
\* exception leaving get_calls_from_function would end the run
BuildStepFrom(results) ==
    /\ pc = "build"
    /\ \E func \in todo, res \in results :
          LET r == GetCallsFromFunction(func, res, symbols) IN
          /\ last_disasm' = [func |-> func, ok |-> res.ok, hung |-> res.hung,
                              called |-> Captured(res)]
          /\ failed' = IF res.ok THEN failed ELSE failed \cup {func}
          /\ IF r.blocked
             THEN /\ pc' = "blocked"
                  /\ UNCHANGED <<call_graph, todo, err>>
             ELSE IF r.raised
             THEN /\ pc' = "crashed"
                  /\ err' = Append(err, "Traceback (most recent call last)")
                  /\ UNCHANGED <<call_graph, todo>>
             ELSE /\ pc' = pc
                  /\ err' = IF (Cardinality(symbols) - Cardinality(todo)) % 100 = 0
                            THEN Append(err, "Progress: i/N functions analyzed")
                            ELSE err
                  /\ call_graph' = (func :> r.calls) @@ call_graph
                  /\ todo' = todo \ {func}
    /\ UNCHANGED <<func_refs, discarded, symbols_with_size,
                   reachable_from_main, idx, impacts, bfsVars, env, out, rawVars, memoVars, patchVars, testVars>>

BuildStep == BuildStepFrom(DisasmResults)

\* lines 111-112, 157-167
ReachMain ==
    /\ pc = "build"
    /\ todo = {}
    /\ reachable_from_main' = CalculateReachableFrom(main, call_graph)
    /\ call_graph' = GraphAfterReachable(main, call_graph)
    /\ last_disasm' = NoDisasm
    /\ idx' = 1
    /\ impacts' = <<>>
    /\ out' = out \o <<Line(""), Line("")>>
    /\ err' = err \o <<"Complete: N functions analyzed", "4. Calculating reachability from main...",
                       "N functions reachable from main", "5. Analyzing impact of function pointers...">>
    /\ pc' = "impact"
    /\ UNCHANGED <<func_refs, discarded, symbols_with_size, todo, failed, bfsVars,
                   env, rawVars, memoVars, patchVars, testVars>>

\* lines 169-180, one iteration of the loop over func_refs
ImpactStep ==
    /\ pc = "impact"
    /\ idx <= Len(func_refs)
    /\ impacts' = IF IsCandidate(func_refs[idx].function)
                  THEN Append(impacts, ImpactEntry(func_refs[idx]))
                  ELSE impacts
    /\ call_graph' = IF IsCandidate(func_refs[idx].function)
                     THEN GraphAfterReachable(func_refs[idx].function, call_graph)
                     ELSE call_graph
    /\ idx' = idx + 1
    /\ UNCHANGED <<pc, func_refs, discarded, symbols_with_size, todo,
                   last_disasm, failed, reachable_from_main, bfsVars, ioVars, rawVars, memoVars, patchVars, testVars>>

\* lines 183-238: the sort and the report
SortImpacts ==
    /\ pc = "impact"
    /\ idx > Len(func_refs)
    /\ impacts' = SortByTotalBytes(impacts)
    /\ out' = out \o ReportLines(SortByTotalBytes(impacts), symbols_with_size)
    /\ pc' = "done"
    /\ UNCHANGED <<func_refs, discarded, symbols_with_size, todo, call_graph,
                   last_disasm, failed, reachable_from_main, idx, bfsVars, env, err,
                   rawVars, memoVars, patchVars, testVars>>

Next ==
    \/ Main
    \/ Header
    \/ Scan
    \/ NmFail
    \/ NmLine
    \/ NmDone
    \/ BuildStep
    \/ ReachMain
    \/ ImpactStep
    \/ SortImpacts

Spec == Init /\ [][Next]_vars

----------------------------------------------------------------------------
(* The run on grep outputs over several files, for a catalog of two symbols
   without calls *)

ScanFiles == ScanFrom(GrepOutputsFiles, TRUE)

NmLineTwoSymbols ==
    NmLineFrom({[name |-> fa, type |-> "T", size |-> 1], [name |-> U1, type |-> "T", size |-> 2]})

BuildStepNoCalls == BuildStepFrom({[ok |-> TRUE, hung |-> FALSE, lines |-> <<>>]})

NextScan ==
    \/ Main
    \/ Header
    \/ ScanFiles
    \/ NmLineTwoSymbols
    \/ NmDone
    \/ BuildStepNoCalls
    \/ ReachMain
    \/ ImpactStep
    \/ SortImpacts

SpecScan == Init /\ [][NextScan]_vars

----------------------------------------------------------------------------
(* get_all_symbols and the choice of the report mode on their own *)

InitNm ==
    /\ pc = "nm_read"
    /\ Idle
    /\ call_graph = EmptyDict
    /\ root = NoName /\ queue = <<>> /\ reachable = {}
    /\ env = [binary |-> TRUE, git_dir |-> TRUE]
    /\ out = <<>> /\ err = <<>>
    /\ grep_out = <<>> /\ nm_out = <<>>
    /\ memo = NoMemo /\ interleaved = FALSE
    /\ TestIdle
    /\ PatchIdle

\* lines 58-80
NmRead ==
    /\ pc = "nm_read"
    /\ \E output \in NmOutputs :
          /\ nm_out' = output
          /\ symbols_with_size' = GetAllSymbols(output)
    /\ pc' = "nm_mode"
    /\ UNCHANGED <<func_refs, discarded, todo, call_graph, last_disasm, failed,
                   reachable_from_main, idx, impacts, bfsVars, ioVars, grep_out, memoVars, patchVars, testVars>>

\* lines 192-197
NmMode ==
    /\ pc = "nm_mode"
    /\ out' = Append(out, ColumnsLine(HasSizes(symbols_with_size)))
    /\ pc' = "nm_done"
    /\ UNCHANGED <<pipeVars, call_graph, bfsVars, env, err, rawVars, memoVars, patchVars, testVars>>

NextNm ==
    \/ NmRead
    \/ NmMode

SpecNm == InitNm /\ [][NextNm]_vars

----------------------------------------------------------------------------
(* calculate_reachable_from on its own, one loop iteration per step, called
   again and again on one graph *)

ReachNodes == Names

EdgeSets == {E \in SUBSET (ReachNodes \X ReachNodes) : Cardinality(E) <= MaxEdges}

GraphOf(E, K) == [s \in K |-> {e[2] : e \in {d \in E : d[1] = s}}]

\* dicts with a key for every caller only, or for every node
ReachGraphs ==
    {GraphOf(E, {e[1] : e \in E}) : E \in EdgeSets}
    \cup {GraphOf(E, ReachNodes) : E \in EdgeSets}

InitReach ==
    /\ pc = "bfs_idle"
    /\ Idle
    /\ call_graph \in ReachGraphs
    /\ root = NoName
    /\ queue = <<>>
    /\ reachable = {}
    /\ env = [binary |-> TRUE, git_dir |-> TRUE]
    /\ out = <<>> /\ err = <<>>
    /\ grep_out = <<>> /\ nm_out = <<>>
    /\ memo = NoMemo /\ interleaved = FALSE
    /\ TestIdle
    /\ PatchIdle

\* lines 114-120
BfsCall ==
    /\ pc \in {"bfs_idle", "bfs_done"}
    /\ \E func \in Names :
          /\ root' = func
          /\ queue' = BfsStart(func).queue
          /\ reachable' = BfsStart(func).reachable
    /\ pc' = "bfs"
    /\ UNCHANGED <<call_graph, pipeVars, ioVars, rawVars, memoVars, patchVars, testVars>>

\* lines 122-130
BfsLoop ==
    /\ pc = "bfs"
    /\ queue # <<>>
    /\ \E order \in Perms(Calls(call_graph, Head(queue))) :
          LET st == LoopBody(queue, reachable, call_graph, order) IN
          /\ queue' = st.queue
          /\ reachable' = st.reachable
          /\ call_graph' = st.graph
    /\ UNCHANGED <<pc, root, pipeVars, ioVars, rawVars, memoVars, patchVars, testVars>>

\* line 132
BfsReturn ==
    /\ pc = "bfs"
    /\ queue = <<>>
    /\ pc' = "bfs_done"
    /\ memo' = IF memo.root = NoName THEN [root |-> root, result |-> reachable] ELSE memo
    /\ interleaved' = (interleaved \/ (memo.root # NoName /\ memo.root # root))
    /\ UNCHANGED <<call_graph, root, queue, reachable, pipeVars, ioVars, rawVars, patchVars, testVars>>

NextReach ==
    \/ BfsCall
    \/ BfsLoop
    \/ BfsReturn

SpecReach == InitReach /\ [][NextReach]_vars

----------------------------------------------------------------------------
(* Notions of the specification, defined without the traversal *)

\* the symbols connected to a symbol of S by a path of zero or more call edges
RECURSIVE TransitiveClosure(_, _)
TransitiveClosure(S, graph) ==
    LET N == S \cup UNION {Calls(graph, s) : s \in S}
    IN IF N = S THEN S ELSE TransitiveClosure(N, graph)

EntryReachable == TransitiveClosure({main}, call_graph)

Candidates == {impacts[i].function : i \in 1..Len(impacts)}

RECURSIVE TotalSize(_)
TotalSize(S) ==
    IF S = {} THEN 0
    ELSE LET f == CHOOSE g \in S : TRUE IN symbols_with_size[f] + TotalSize(S \ {f})

AllUpperDigitUnderscore(t) ==
    \A i \in 1..Len(t) : t[i] \in UpperChars \cup DigitChars \cup {"_"}

HasUpper(t) == \E i \in 1..Len(t) : t[i] \in UpperChars

----------------------------------------------------------------------------
(* Claims *)

\* C1: when the impact loop has run, the candidates are exactly the referenced
\* identifiers that are in the catalog and not reachable from 'main', each
\* listed once.
C1_CandidateSet ==
    pc = "done" =>
        /\ Candidates = (Keys(func_refs) \cap symbols) \ EntryReachable
        /\ Len(impacts) = Cardinality(Candidates)

\* a referenced catalog symbol other than 'main' is reachable from 'main' and
\* left out, while another referenced symbol is listed
C1_Witness ==
    /\ pc = "done"
    /\ Candidates # {}
    /\ \E r \in Keys(func_refs) \cap symbols : r # main /\ r \in EntryReachable

\* C2: the set calculate_reachable_from returns is closed under calls.
C2_FixedPoint ==
    pc = "bfs_done" => \A s \in reachable : Calls(call_graph, s) \subseteq reachable

\* a traversal of a cycle through the root that has a further symbol behind it
C2_Witness ==
    /\ pc = "bfs_done"
    /\ \E s \in reachable \ {root} : root \in Calls(call_graph, s)
    /\ Cardinality(reachable) >= 3

\* C3: calculate_reachable_from returns the root and the symbols connected to
\* it by call edges, and nothing else.
C3_ExactClosure ==
    pc = "bfs_done" =>
        /\ root \in reachable
        /\ reachable = TransitiveClosure({root}, call_graph)

\* a symbol with two callees was expanded and a symbol of the graph stays outside
C3_Witness ==
    /\ pc = "bfs_done"
    /\ \E s \in reachable : Cardinality(Calls(call_graph, s)) >= 2
    /\ \E s \in DOMAIN call_graph : s \notin reachable /\ call_graph[s] # {}

\* C4: every listed candidate's total_bytes is the sum of the sizes of all the
\* symbols connected to it, whatever other traversals have visited.
C4_TotalBytes ==
    \A i \in 1..Len(impacts) :
        LET reach == TransitiveClosure({impacts[i].function}, call_graph) IN
        /\ reach \subseteq symbols
        /\ impacts[i].total_bytes = TotalSize(reach)

\* two candidates share a callee and both count it
C4_Witness ==
    /\ pc = "done"
    /\ Len(impacts) = 2
    /\ \E s \in symbols :
          /\ s \notin Candidates
          /\ s \in TransitiveClosure({impacts[1].function}, call_graph)
          /\ s \in TransitiveClosure({impacts[2].function}, call_graph)
          /\ impacts[1].total_bytes > symbols_with_size[impacts[1].function]
          /\ impacts[2].total_bytes > symbols_with_size[impacts[2].function]

\* C5: a symbol reachable from 'main' adds nothing to a candidate's reported
\* bytes or reachable count.
C5_OnlyOtherwiseUnreachable ==
    \A i \in 1..Len(impacts) :
        LET own == TransitiveClosure({impacts[i].function}, call_graph) \ EntryReachable IN
        /\ impacts[i].total_bytes = TotalSize(own \cap symbols)
        /\ impacts[i].reachable_count = Cardinality(own)

\* C6: in the sorted list a candidate with more bytes stands before one with fewer.
C6_RankingMonotonic ==
    pc = "done" =>
        \A i, j \in 1..Len(impacts) :
            impacts[i].total_bytes > impacts[j].total_bytes => i < j

\* the candidate with more bytes was scanned after the one with fewer
C6_Witness ==
    /\ pc = "done"
    /\ Len(impacts) = 2
    /\ impacts[1].total_bytes > impacts[2].total_bytes
    /\ KeyIndex(func_refs, impacts[1].function) > KeyIndex(func_refs, impacts[2].function)

\* C7 as stated: no identifier made of upper-case letters, digits and
\* underscores is kept by find_function_pointers or listed as a candidate.
C7_AsStated ==
    \A t \in Tokens :
        AllUpperDigitUnderscore(t) => t \notin Keys(func_refs) /\ t \notin Candidates

\* C7 amended: an identifier made of upper-case letters, digits and underscores
\* that has at least one upper-case letter is never kept nor listed.
C7_UpperCaseDiscarded ==
    \A t \in Tokens :
        AllUpperDigitUnderscore(t) /\ HasUpper(t) =>
            t \notin Keys(func_refs) /\ t \notin Candidates

\* an upper-case identifier was scanned, is a catalog symbol that 'main' does
\* not reach, and the finished run does not list it
C7_Witness ==
    /\ pc = "done"
    /\ \E t \in discarded :
          /\ AllUpperDigitUnderscore(t) /\ HasUpper(t)
          /\ t \in symbols
          /\ t \notin EntryReachable
          /\ t \notin Candidates

\* C8: no symbol of the call graph is its own callee.
C8_NoSelfLoop ==
    \A s \in DOMAIN call_graph : s \notin call_graph[s]

\* the disassembly of the symbol just processed held a call to the symbol itself
C8_Witness ==
    /\ pc = "build"
    /\ last_disasm.func \in DOMAIN call_graph
    /\ last_disasm.ok
    /\ last_disasm.func \in last_disasm.called

\* C9: the built graph has an entry for every catalog symbol and for nothing
\* else, and every callee is a catalog symbol.
C9_NodesAndEdgesInCatalog ==
    /\ \A s \in DOMAIN call_graph : s \in symbols /\ call_graph[s] \subseteq symbols
    /\ (pc \in {"impact", "done"} \/ (pc = "build" /\ todo = {})) => DOMAIN call_graph = symbols

\* the last disassembly of the build held a call to a name outside the catalog
C9_Witness ==
    /\ pc = "build"
    /\ todo = {}
    /\ last_disasm.func \in DOMAIN call_graph
    /\ \E c \in last_disasm.called : c \notin symbols

C10_State ==
    /\ \A s \in failed : s \in DOMAIN call_graph /\ call_graph[s] = {}
    /\ (last_disasm.func # NoName /\ last_disasm.ok) =>
          /\ last_disasm.func \in DOMAIN call_graph
          /\ call_graph[last_disasm.func] =
                {c \in last_disasm.called : c \in symbols /\ c # last_disasm.func}
    /\ failed # {} => pc \in {"build", "impact", "done"}

C10_Step ==
    \A s \in DOMAIN call_graph : s \in DOMAIN call_graph' /\ call_graph'[s] = call_graph[s]

\* C10: a symbol whose disassembly failed has an empty call set, the call sets
\* of the other symbols are what their own disassembly gives and no later
\* step changes them, and a run with a failure goes on through the build and
\* the impact loop to the ranking instead of ending in an exception.
C10_FailSoft == []C10_State /\ [][C10_Step]_vars

\* a finished run with a ranked candidate, in which one disassembly failed and
\* another symbol has a callee
C10_Witness ==
    /\ pc = "done"
    /\ failed # {}
    /\ impacts # <<>>
    /\ \E s \in symbols \ failed : call_graph[s] # {}

----------------------------------------------------------------------------
(* tools/apply-patches.py *)

\* a line or a pattern is a sequence of characters; the newline that ends a
\* line is left out
IsSpace(ch) == ch = " "

\* str.lstrip()
RECURSIVE Lstrip(_)
Lstrip(line) ==
    IF line # <<>> /\ IsSpace(Head(line)) THEN Lstrip(Tail(line)) ELSE line

\* str.startswith(prefix)
StartsWith(line, prefix) ==
    Len(prefix) <= Len(line) /\ SubSeq(line, 1, Len(prefix)) = prefix

\* lines 38-42: re.search(r'^\s*' + re.escape(pattern), line); the pattern
\* is matched literally behind any number of the leading blanks
RegexMatches(pattern, line) ==
    \E k \in 0..(Len(line) - Len(Lstrip(line))) :
        StartsWith(SubSeq(line, k + 1, Len(line)), pattern)

Spaces(n) == [i \in 1..n |-> " "]

\* lines 45-47
CommentLine(line) ==
    LET indent == Len(line) - Len(Lstrip(line))
        comment == IF ~StartsWith(Lstrip(line), <<"/", "/">>) THEN <<"/", "/">> ELSE <<>>
    IN Spaces(indent) \o comment \o <<" ">> \o Lstrip(line)

KnownActions == {"comment", "remove"}

\* lines 41-42: the index of the first line the regex matches, 0 for none
FirstMatch(ls, pattern) ==
    LET hits == {i \in 1..Len(ls) : RegexMatches(pattern, ls[i])}
    IN IF hits = {} THEN 0 ELSE CHOOSE i \in hits : \A j \in hits : i <= j

\* find_and_patch_line that passes over a patch it cannot apply
FindAndPatchLineSkipping(ls, pattern, action) ==
    LET i == FirstMatch(ls, pattern) IN
    IF i = 0 THEN [success |-> TRUE, line_num |-> 0, lines |-> ls, err |-> <<>>]
    ELSE IF action = "comment"
         THEN [success |-> TRUE, line_num |-> i,
               lines |-> [ls EXCEPT ![i] = CommentLine(ls[i])], err |-> <<>>]
         ELSE IF action = "remove"
              THEN [success |-> TRUE, line_num |-> i,
                    lines |-> [ls EXCEPT ![i] = <<>>], err |-> <<>>]
              ELSE [success |-> TRUE, line_num |-> i, lines |-> ls, err |-> <<>>]

\* the entries of a list without entry i
Without(ls, i) == [j \in 1..(Len(ls) - 1) |-> IF j < i THEN ls[j] ELSE ls[j + 1]]

\* find_and_patch_line whose 'remove' deletes the entry (del lines[i])
FindAndPatchLineDeleting(ls, pattern, action) ==
    LET i == FirstMatch(ls, pattern) IN
    IF i = 0 THEN [success |-> FALSE, line_num |-> -1, lines |-> ls, err |-> <<>>]
    ELSE IF action = "comment"
         THEN [success |-> TRUE, line_num |-> i,
               lines |-> [ls EXCEPT ![i] = CommentLine(ls[i])], err |-> <<>>]
         ELSE IF action = "remove"
              THEN [success |-> TRUE, line_num |-> i, lines |-> Without(ls, i), err |-> <<>>]
              ELSE [success |-> FALSE, line_num |-> -1, lines |-> ls,
                    err |-> <<"Error: Unknown action">>]

\* lines 27-54: the returned pair, the list as the call leaves it and what
\* the call prints to stderr
FindAndPatchLine(ls, pattern, action) ==
    LET i == FirstMatch(ls, pattern) IN
    IF i = 0 THEN [success |-> FALSE, line_num |-> -1, lines |-> ls, err |-> <<>>]
    ELSE IF action = "comment"
         THEN [success |-> TRUE, line_num |-> i,
               lines |-> [ls EXCEPT ![i] = CommentLine(ls[i])], err |-> <<>>]
         ELSE IF action = "remove"
              THEN [success |-> TRUE, line_num |-> i,
                    lines |-> [ls EXCEPT ![i] = <<>>], err |-> <<>>]
              ELSE [success |-> FALSE, line_num |-> -1, lines |-> ls,
                    err |-> <<"Error: Unknown action">>]

\* lines 100-101 and 75-76: writelines() joins the list, so an entry blanked
\* by 'remove' is no line of the written file
WrittenLines(ls) == SelectSeq(ls, LAMBDA l : l # <<>>)

PatchFiles == {"f.c", "g.c"}

PatchLineTexts == {<<"a">>, <<" ", "b">>}

PatchPatterns == {<<"a">>, <<"b">>}

PatchActions == KnownActions \cup {"delete"}

SeqsUpTo(S, n) == UNION {[1..k -> S] : k \in 0..n}

NoFile == [exists |-> FALSE, lines |-> <<>>]

Disks ==
    [PatchFiles -> {NoFile} \cup
                   {[exists |-> TRUE, lines |-> ls] :
                       ls \in SeqsUpTo(PatchLineTexts, MaxFileLines) \ {<<>>}}]

RECURSIVE TotalPatches(_)
TotalPatches(config) ==
    IF config = <<>> THEN 0
    ELSE Len(Head(config).patches) + TotalPatches(Tail(config))

PatchConfigs ==
    {config \in SeqsUpTo([file : PatchFiles,
                          patches : SeqsUpTo([pattern : PatchPatterns, action : PatchActions],
                                             MaxPatches)],
                         MaxPatchFiles) :
        TotalPatches(config) <= MaxPatches}

InitPatch ==
    /\ pc = "patch_main"
    /\ Idle
    /\ call_graph = EmptyDict
    /\ root = NoName /\ queue = <<>> /\ reachable = {}
    /\ env = [binary |-> TRUE, git_dir |-> TRUE]
    /\ out = <<>> /\ err = <<>>
    /\ grep_out = <<>> /\ nm_out = <<>>
    /\ memo = NoMemo /\ interleaved = FALSE
    /\ TestIdle
    /\ patch_config \in PatchConfigs
    /\ disk \in Disks
    /\ disk0 = disk
    /\ PatchIdleLocals

notPatch == <<pipeVars, call_graph, bfsVars, env, rawVars, memoVars, testVars>>

\* lines 108-129 and 62: the start of main up to the first loop iteration
PatchMain ==
    /\ pc = "patch_main"
    /\ \E submodule_exists, yaml_loads \in BOOLEAN :
          IF ~submodule_exists
          THEN /\ pc' = "patch_exit1"
               /\ err' = Append(err, "Error: Git submodule directory not found")
               /\ out' = out
               /\ UNCHANGED <<file_idx, patches_applied>>
          ELSE IF ~yaml_loads
               THEN /\ pc' = "patch_exit1"
                    /\ err' = Append(err, "Error: Patch configuration not found or invalid")
                    /\ out' = Append(out, Line("Git Source Patch Runner"))
                    /\ UNCHANGED <<file_idx, patches_applied>>
               ELSE /\ pc' = "patch_file"
                    /\ out' = Append(out, Line("Git Source Patch Runner"))
                    /\ err' = err
                    /\ file_idx' = 1
                    /\ patches_applied' = 0
    /\ UNCHANGED <<patch_config, disk, patch_idx, lines, file_patches_applied, returned,
                   original_lines, last_patch, disk0, notPatch>>

\* lines 64-79: the head of one iteration of the outer loop
OpenFile ==
    /\ pc = "patch_file"
    /\ file_idx <= Len(patch_config)
    /\ LET file == patch_config[file_idx].file IN
       IF ~disk[file].exists
       THEN /\ err' = Append(err, "Error: File not found")
            /\ returned' = -1
            /\ pc' = "patch_returned"
            /\ UNCHANGED <<lines, original_lines, file_patches_applied, patch_idx>>
       ELSE /\ lines' = disk[file].lines
            /\ original_lines' = disk[file].lines
            /\ file_patches_applied' = 0
            /\ patch_idx' = 1
            /\ pc' = "patch_loop"
            /\ UNCHANGED <<err, returned>>
    /\ UNCHANGED <<patch_config, disk, file_idx, patches_applied, out, last_patch, disk0, notPatch>>

\* lines 82-96: one iteration of the inner loop
ApplyPatch ==
    /\ pc = "patch_loop"
    /\ patch_idx <= Len(patch_config[file_idx].patches)
    /\ LET patch == patch_config[file_idx].patches[patch_idx]
           r == FindAndPatchLine(lines, patch.pattern, patch.action)
       IN /\ lines' = r.lines
          /\ last_patch' = [pattern |-> patch.pattern, action |-> patch.action,
                            success |-> r.success, line_num |-> r.line_num]
          /\ IF r.success
             THEN /\ out' = Append(out, [Line("patched line") EXCEPT
                                            !.location = <<patch_config[file_idx].file, r.line_num>>])
                  /\ err' = err \o r.err
                  /\ file_patches_applied' = file_patches_applied + 1
                  /\ patch_idx' = patch_idx + 1
                  /\ UNCHANGED <<pc, returned>>
             ELSE /\ err' = err \o r.err \o <<"Error: Pattern not found">>
                  /\ returned' = -1
                  /\ pc' = "patch_returned"
                  /\ UNCHANGED <<out, file_patches_applied, patch_idx>>
    /\ UNCHANGED <<patch_config, disk, file_idx, patches_applied, original_lines, disk0, notPatch>>

\* lines 98-104: the end of one iteration of the outer loop
WriteFile ==
    /\ pc = "patch_loop"
    /\ patch_idx > Len(patch_config[file_idx].patches)
    /\ IF file_patches_applied > 0
       THEN /\ disk' = [disk EXCEPT ![patch_config[file_idx].file].lines = WrittenLines(lines)]
            /\ patches_applied' = patches_applied + file_patches_applied
            /\ out' = out
       ELSE /\ out' = Append(out, Line("No patches applied to this file"))
            /\ UNCHANGED <<disk, patches_applied>>
    /\ file_idx' = file_idx + 1
    /\ pc' = "patch_file"
    /\ UNCHANGED <<patch_config, patch_idx, lines, file_patches_applied, returned, err,
                   original_lines, last_patch, disk0, notPatch>>

\* line 106
PatchReturn ==
    /\ pc = "patch_file"
    /\ file_idx > Len(patch_config)
    /\ returned' = patches_applied
    /\ pc' = "patch_returned"
    /\ UNCHANGED <<patch_config, disk, file_idx, patch_idx, lines, file_patches_applied,
                   patches_applied, out, err, original_lines, last_patch, disk0, notPatch>>

\* lines 130-137
PatchExit ==
    /\ pc = "patch_returned"
    /\ IF returned < 0
       THEN /\ err' = Append(err, "Patching failed!")
            /\ out' = out
            /\ pc' = "patch_exit1"
       ELSE /\ out' = Append(out, Line("Successfully applied N patches"))
            /\ err' = err
            /\ pc' = "patch_exit0"
    /\ UNCHANGED <<patchVars, notPatch>>

NextPatch ==
    \/ PatchMain
    \/ OpenFile
    \/ ApplyPatch
    \/ WriteFile
    \/ PatchReturn
    \/ PatchExit

SpecPatch == InitPatch /\ [][NextPatch]_vars

----------------------------------------------------------------------------
(* find_and_patch_line on its own, called again and again on one list *)

\* lines as readlines() gives them: plain, indented, already commented
WideLineTexts == {<<"a">>, <<" ", "a">>, <<"b">>, <<"/", "/", "a">>}

\* patterns of patches.yaml, the empty string among them
WidePatterns == {<<>>, <<"a">>, <<"b">>}

InitPatchLine ==
    /\ pc = "patch_lines"
    /\ Idle
    /\ call_graph = EmptyDict
    /\ root = NoName /\ queue = <<>> /\ reachable = {}
    /\ env = [binary |-> TRUE, git_dir |-> TRUE]
    /\ out = <<>> /\ err = <<>>
    /\ grep_out = <<>> /\ nm_out = <<>>
    /\ memo = NoMemo /\ interleaved = FALSE
    /\ TestIdle
    /\ patch_config = <<>> /\ disk = <<>> /\ disk0 = <<>>
    /\ file_idx = 0 /\ patch_idx = 0
    /\ file_patches_applied = 0 /\ patches_applied = 0 /\ returned = 0
    /\ lines \in SeqsUpTo(WideLineTexts, MaxFileLines) \ {<<>>}
    /\ original_lines = lines
    /\ last_patch = NoPatch

\* line 87: one call on the list the earlier calls have left
FindAndPatchCall ==
    /\ pc = "patch_lines"
    /\ patch_idx < MaxPatches
    /\ \E pattern \in WidePatterns, action \in PatchActions :
          LET r == FindAndPatchLine(lines, pattern, action) IN
          /\ lines' = r.lines
          /\ last_patch' = [pattern |-> pattern, action |-> action,
                            success |-> r.success, line_num |-> r.line_num]
          /\ err' = err \o r.err
    /\ patch_idx' = patch_idx + 1
    /\ UNCHANGED <<pc, patch_config, disk, disk0, file_idx, file_patches_applied,
                   patches_applied, returned, original_lines, out, notPatch>>

NextPatchLine == FindAndPatchCall

SpecPatchLine == InitPatchLine /\ [][NextPatchLine]_vars

----------------------------------------------------------------------------
(* Claims on diagnostics, startup, report mode and ordering *)

\* the stderr lines the run prints whether or not a disassembly fails
ProgressMessages ==
    {"1. Finding function pointer references in source...",
     "Found N unique function pointers", "2. Extracting symbols from binary...",
     "Found N functions in binary", "3. Building call graph...",
     "Building call graph (this may take a minute)...",
     "Progress: i/N functions analyzed", "Complete: N functions analyzed",
     "4. Calculating reachability from main...", "N functions reachable from main",
     "5. Analyzing impact of function pointers..."}

\* C11: a run in which a disassembly failed has printed, by its end, a
\* diagnostic about the failure on stderr.
C11_FailureDiagnosed ==
    (pc = "done" /\ failed # {}) =>
        \E i \in 1..Len(err) : err[i] \notin ProgressMessages

\* C12: when the binary or the source directory does not exist, main ends
\* with exit status 1 and an error on stderr, and stdout stays empty.
C12_MissingPathFatal ==
    (pc # "main" /\ (~env.binary \/ ~env.git_dir)) =>
        /\ pc = "exit1"
        /\ out = <<>>
        /\ err # <<>>

\* the binary exists, the source directory does not, and main has reported it
C12_Witness ==
    /\ pc = "exit1"
    /\ env.binary /\ ~env.git_dir
    /\ err = <<"Error: Git source directory not found">>
    /\ out = <<>>

\* C13: when nm cannot read the binary or the symbol table is empty, the run
\* ends with a nonzero status and stdout is empty.
C13_EmptyCatalogFatal ==
    (pc = "crashed" \/ (pc \in {"build", "impact", "done"} /\ symbols = {})) =>
        /\ pc \in {"crashed", "exit1"}
        /\ out = <<>>

\* the last T/t line of the nm output for the symbol has a size column
CarriesRealSize(output, s) ==
    LET setters == {i \in 1..Len(output) : output[i].name = s /\ output[i].type \in {"T", "t"}}
    IN /\ setters # {}
       /\ output[CHOOSE i \in setters : \A j \in setters : j <= i].size # NoSize

\* C14: the report is in bytes mode exactly when some cataloged symbol has a
\* size that nm reported.
C14_ModeByRealSizes ==
    pc = "nm_done" =>
        (out[Len(out)] = ColumnsLine(TRUE)
            <=> \E s \in symbols : CarriesRealSize(nm_out, s))

RankingOf(refs) ==
    LET sorted == SortByTotalBytes(ImpactsFrom(<<>>, refs, 1))
    IN [k \in 1..Len(sorted) |-> sorted[k].function]

\* C15: the order of the ranked candidates is the same for every order in
\* which the references could have been scanned.
C15_TieBreakDeterministic ==
    pc = "done" =>
        /\ [k \in 1..Len(impacts) |-> impacts[k].function] = RankingOf(func_refs)
        /\ \A p \in Perms(1..Len(func_refs)) :
              RankingOf([k \in 1..Len(func_refs) |-> func_refs[p[k]]]) = RankingOf(func_refs)

Occurrences(output, name) ==
    {o \in (1..Len(output)) \X (1..MaxRefs) :
        o[2] <= Len(output[o[1]].content) /\ output[o[1]].content[o[2]] = name}

FileRank(f) == IF f = "a.c" THEN 1 ELSE 2

\* (file path, line number) order
LocationLeq(a, b) ==
    \/ FileRank(a[1]) < FileRank(b[1])
    \/ (a[1] = b[1] /\ a[2] <= b[2])

RowKinds == {"row: func reach size refs location", "row: func reach refs location"}

\* C16: every row of the report shows the number of occurrences of its
\* identifier in the grep output and the smallest of their locations.
C16_FirstReferenceSmallest ==
    pc = "done" =>
        \A k \in 1..Len(out) :
            out[k].kind \in RowKinds =>
                /\ out[k].refs = Cardinality(Occurrences(grep_out, out[k].function))
                /\ \A o \in Occurrences(grep_out, out[k].function) :
                      LocationLeq(out[k].location, <<grep_out[o[1]].file, grep_out[o[1]].line>>)

\* C17: a call for the root of the first call returns the set the first call
\* returned.
C17_Idempotent ==
    (pc = "bfs_done" /\ memo.root = root) => reachable = memo.result

\* the root of the first call is asked for again after a call for another root
C17_Witness ==
    /\ pc = "bfs_done"
    /\ memo.root = root
    /\ interleaved
    /\ Cardinality(reachable) >= 2

C18_State ==
    /\ (pc \in {"patch_returned", "patch_exit0"} /\ returned # -1) =>
          /\ returned = TotalPatches(patch_config)
          /\ file_idx = Len(patch_config) + 1
    /\ pc = "patch_exit0" => returned >= 0

C18_Step ==
    /\ (pc = "patch_file" /\ file_idx <= Len(patch_config)
            /\ ~disk[patch_config[file_idx].file].exists) =>
          (returned' = -1 /\ pc' = "patch_returned")
    /\ (pc = "patch_loop" /\ patch_idx <= Len(patch_config[file_idx].patches)) =>
          LET patch == patch_config[file_idx].patches[patch_idx]
              applies == /\ \E i \in 1..Len(lines) : RegexMatches(patch.pattern, lines[i])
                         /\ patch.action \in KnownActions
          IN /\ ~applies => (returned' = -1 /\ pc' = "patch_returned")
             /\ file_patches_applied' = file_patches_applied + 1 => applies
    /\ (pc = "patch_returned" /\ returned = -1) =>
          /\ pc' = "patch_exit1"
          /\ UNCHANGED <<disk, lines, file_idx, patch_idx, file_patches_applied, patches_applied>>
    /\ pc = "patch_exit1" => UNCHANGED <<disk, lines>>

\* C18: a missing file, a pattern that matches no line and an unknown action
\* each make apply_patches return -1 at once, after which nothing is patched
\* or written and main exits with status 1; a count is returned only when
\* every configured patch was applied, and it is their number.
C18_FailsExplicitly == []C18_State /\ [][C18_Step]_vars

\* main has exited with status 1 because a patch of the second file entry
\* failed after the first file was patched and written
C18_Witness ==
    /\ pc = "patch_exit1"
    /\ returned = -1
    /\ file_idx = 2
    /\ patches_applied >= 1
    /\ disk[patch_config[2].file].exists

\* C19: once the graph is built, no step of analyze_impact changes it.
C19_GraphNotMutated ==
    [][((pc = "build" /\ todo = {}) \/ pc \in {"impact", "done"}) => call_graph' = call_graph]_vars

\* a finished run in which 'main' has no entry in the graph and a candidate
\* with a callee was traversed
C19_Witness ==
    /\ pc = "done"
    /\ main \notin DOMAIN call_graph
    /\ \E i \in 1..Len(impacts) : impacts[i].reachable_count >= 2

C20_Step ==
    (pc = "build" /\ pc' = "build" /\ todo' # todo) =>
        LET f == last_disasm'.func IN
        /\ call_graph' = (f :> (IF last_disasm'.ok
                                THEN {c \in last_disasm'.called : c \in symbols /\ c # f}
                                ELSE {})) @@ call_graph
        /\ DOMAIN call_graph' = symbols \ todo'

\* C20: whichever symbols build_call_graph has processed before, a step adds
\* the entry that the symbol's own disassembly gives and nothing else, so the
\* finished graph does not depend on the order.
C20_OrderIndependent == [][C20_Step]_vars

\* the build ends with a symbol that an earlier processed symbol calls
C20_Witness ==
    /\ pc = "build"
    /\ todo = {}
    /\ \E s \in DOMAIN call_graph : last_disasm.func \in call_graph[s]

----------------------------------------------------------------------------
(* tests/run_tests.py: run_test_suite *)

DigitSet == {"1"}

\* lines 78-94: the expected string is matched in full; a literal stands
\* for itself, $NUMBER for one or more digits, $ANYTHING for one or more
\* characters that are not whitespace
RECURSIVE MatchOutput(_, _)
MatchOutput(actual, expected) ==
    IF expected = <<>> THEN actual = <<>>
    ELSE IF Head(expected) = "$NUMBER"
         THEN \E k \in 1..Len(actual) :
                 /\ \A j \in 1..k : actual[j] \in DigitSet
                 /\ MatchOutput(SubSeq(actual, k + 1, Len(actual)), Tail(expected))
         ELSE IF Head(expected) = "$ANYTHING"
              THEN \E k \in 1..Len(actual) :
                      /\ \A j \in 1..k : actual[j] # " "
                      /\ MatchOutput(SubSeq(actual, k + 1, Len(actual)), Tail(expected))
              ELSE /\ actual # <<>>
                   /\ Head(actual) = Head(expected)
                   /\ MatchOutput(Tail(actual), Tail(expected))

\* what a binary prints, after ansi_to_markers
PromptOutputs == {<<"1">>, <<"x">>}

ExpectedValues == {<<"1">>, <<"$NUMBER">>}

ExpectedLargeValues == {NoExpected, <<"x">>}

\* one entry of the 'tests' list of the YAML file; steps holds the repeat
\* count of each step, custom says that large_repo_size is given
TestCases ==
    [reset : BOOLEAN,
     steps : UNION {[1..n -> 1..MaxRepeat] : n \in 0..MaxSteps},
     custom : BOOLEAN,
     expected : ExpectedValues,
     expected_large : ExpectedLargeValues]

\* run_command: the exit status and whether stderr contains "fatal"
CommandOutcomes == [returncode : {0, 1}, fatal : BOOLEAN]

\* line 898
IsFatal(outcome) == outcome.returncode # 0 /\ outcome.fatal

\* the step loops with a failure that only leaves the repeat loop
AfterCommandInnerBreak(steps, s, r, outcome) ==
    IF IsFatal(outcome)
    THEN [failed_setup |-> TRUE, step_idx |-> s + 1, repeat_idx |-> 1,
          done |-> s + 1 > Len(steps), recorded |-> TRUE]
    ELSE IF r < steps[s]
         THEN [failed_setup |-> FALSE, step_idx |-> s, repeat_idx |-> r + 1,
               done |-> FALSE, recorded |-> FALSE]
         ELSE [failed_setup |-> FALSE, step_idx |-> s + 1, repeat_idx |-> 1,
               done |-> s + 1 > Len(steps), recorded |-> TRUE]

\* lines 881-912: where the two loops stand after one run_command call;
\* recorded says that step_info has been appended to step_results
AfterCommand(steps, s, r, outcome) ==
    IF IsFatal(outcome)
    THEN [failed_setup |-> TRUE, step_idx |-> s, repeat_idx |-> r,
          done |-> TRUE, recorded |-> TRUE]
    ELSE IF r < steps[s]
         THEN [failed_setup |-> FALSE, step_idx |-> s, repeat_idx |-> r + 1,
               done |-> FALSE, recorded |-> FALSE]
         ELSE [failed_setup |-> FALSE, step_idx |-> s + 1, repeat_idx |-> 1,
               done |-> s + 1 > Len(steps), recorded |-> TRUE]

\* lines 919-929
TestModes(t) ==
    IF t.custom
    THEN <<[mode |-> "custom", expected |-> t.expected]>>
    ELSE <<[mode |-> "small", expected |-> t.expected],
           [mode |-> "large",
            expected |-> IF t.expected_large # NoExpected THEN t.expected_large ELSE t.expected]>>

\* lines 936-969: the result of one mode from the outputs of the binaries
ModeResult(mode, outputs) ==
    [mode |-> mode.mode,
     expected |-> mode.expected,
     actual |-> outputs[1],
     passed |-> MatchOutput(outputs[1], mode.expected),
     binaries_agree |-> \A b \in 1..Len(outputs) : outputs[b] = outputs[1]]

\* lines 931, 957-958
AllModesPassed(results) ==
    \A m \in 1..Len(results) : results[m].passed /\ results[m].binaries_agree

InitTests ==
    /\ pc = "suite_start"
    /\ Idle
    /\ call_graph = EmptyDict
    /\ root = NoName /\ queue = <<>> /\ reachable = {}
    /\ env = [binary |-> TRUE, git_dir |-> TRUE]
    /\ out = <<>> /\ err = <<>>
    /\ grep_out = <<>> /\ nm_out = <<>>
    /\ memo = NoMemo /\ interleaved = FALSE
    /\ PatchIdle
    /\ TestIdle

notTests == <<pipeVars, call_graph, bfsVars, ioVars, rawVars, memoVars, patchVars>>

\* lines 822-858: the binaries, the test file, the empty repository directory
SuiteStart ==
    /\ pc = "suite_start"
    /\ \E binaries_exist \in BOOLEAN, n \in 0..MaxTests :
          IF ~binaries_exist \/ n = 0
          THEN /\ success' = FALSE
               /\ pc' = "suite_returned"
               /\ UNCHANGED <<num_tests, test_i>>
          ELSE /\ num_tests' = n
               /\ test_i' = 1
               /\ pc' = "test_begin"
               /\ success' = success
    /\ test_dir' = {}
    /\ tests_passed' = 0
    /\ tests_failed' = 0
    /\ test_results' = <<>>
    /\ UNCHANGED <<testLocals, notTests>>

\* lines 860-878: the head of one iteration of the loop over the tests
TestBegin ==
    /\ pc = "test_begin"
    /\ test_i <= num_tests
    /\ \E t \in TestCases :
          /\ test' = t
          /\ test_dir' = IF t.reset THEN {} ELSE test_dir
    /\ step_results' = <<>>
    /\ test_failed_during_setup' = FALSE
    /\ step_idx' = 1
    /\ repeat_idx' = 1
    /\ pc' = "steps"
    /\ UNCHANGED <<num_tests, test_i, tests_passed, tests_failed, test_results, success,
                   binary_outputs, mode_results, notTests>>

\* lines 881-912: one run_command call of the step loops
RunStep ==
    /\ pc = "steps"
    /\ step_idx <= Len(test.steps)
    /\ \E outcome \in CommandOutcomes :
          LET after == AfterCommand(test.steps, step_idx, repeat_idx, outcome) IN
          /\ test_dir' = test_dir \cup {<<test_i, step_idx>>}
          /\ step_results' = IF after.recorded
                             THEN Append(step_results,
                                         [command |-> <<test_i, step_idx>>,
                                          repeat |-> test.steps[step_idx],
                                          error |-> after.failed_setup])
                             ELSE step_results
          /\ tests_failed' = IF IsFatal(outcome) THEN tests_failed + 1 ELSE tests_failed
          /\ test_failed_during_setup' = (test_failed_during_setup \/ after.failed_setup)
          /\ step_idx' = after.step_idx
          /\ repeat_idx' = after.repeat_idx
          /\ pc' = IF after.done THEN "modes" ELSE "steps"
    /\ UNCHANGED <<num_tests, test_i, test, tests_passed, test_results, success,
                   binary_outputs, mode_results, notTests>>

\* line 881 for a test without steps
NoSteps ==
    /\ pc = "steps"
    /\ test.steps = <<>>
    /\ pc' = "modes"
    /\ UNCHANGED <<num_tests, test_i, test_dir, tests_passed, tests_failed, test_results,
                   success, testLocals, notTests>>

\* lines 914-969: every binary is run in every mode of the test
RunModes ==
    /\ pc = "modes"
    /\ LET modes == TestModes(test) IN
       \E outputs \in [1..Len(modes) -> [1..MaxBinaries -> PromptOutputs]] :
          /\ binary_outputs' = outputs
          /\ mode_results' = [m \in 1..Len(modes) |-> ModeResult(modes[m], outputs[m])]
    /\ pc' = "record"
    /\ UNCHANGED <<num_tests, test_i, test_dir, test, step_idx, repeat_idx, step_results,
                   test_failed_during_setup, tests_passed, tests_failed, test_results,
                   success, notTests>>

\* lines 971-1043 with replace_expected off: the console result, the
\* counters and the entry of test_results
RecordResult ==
    /\ pc = "record"
    /\ LET all_modes_passed == AllModesPassed(mode_results) IN
       /\ tests_passed' = IF all_modes_passed THEN tests_passed + 1 ELSE tests_passed
       /\ tests_failed' = IF all_modes_passed THEN tests_failed ELSE tests_failed + 1
       /\ test_results' = Append(test_results,
                                 [name |-> test_i,
                                  passed |-> all_modes_passed /\ ~test_failed_during_setup])
    /\ test_i' = test_i + 1
    /\ pc' = "test_begin"
    /\ UNCHANGED <<num_tests, test_dir, success, testLocals, notTests>>

\* lines 1045-1092
Summary ==
    /\ pc = "test_begin"
    /\ test_i > num_tests
    /\ success' = (tests_failed = 0)
    /\ pc' = "suite_returned"
    /\ UNCHANGED <<num_tests, test_i, test_dir, tests_passed, tests_failed, test_results,
                   testLocals, notTests>>

NextTests ==
    \/ SuiteStart
    \/ TestBegin
    \/ RunStep
    \/ NoSteps
    \/ RunModes
    \/ RecordResult
    \/ Summary

SpecTests == InitTests /\ [][NextTests]_vars

----------------------------------------------------------------------------
(* Claims on the test runner *)

\* the setup of the current test did not fail and, in each of its modes, the
\* baseline output matches the expected value of the mode and every binary
\* printed what the baseline printed
PassesAsSpecified ==
    /\ ~test_failed_during_setup
    /\ \A m \in 1..Len(TestModes(test)) :
          /\ MatchOutput(binary_outputs[m][1], TestModes(test)[m].expected)
          /\ \A b \in 1..Len(binary_outputs[m]) : binary_outputs[m][b] = binary_outputs[m][1]

C24_Step ==
    (pc = "record" /\ pc' = "test_begin") =>
        /\ test_results'[Len(test_results')].passed <=> PassesAsSpecified
        /\ (tests_passed' = tests_passed + 1) <=> PassesAsSpecified

C24_State ==
    (pc = "suite_returned" /\ success) =>
        /\ tests_failed = 0
        /\ \A k \in 1..Len(test_results) : test_results[k].passed

\* C24: a test is recorded as passed, in the entry of test_results and on
\* the console with the counter of passed tests, exactly if its setup did not
\* fail and each of its modes matched with all binaries agreeing; the suite
\* returns success only if no test failed.
C24_RecordedPassed == []C24_State /\ [][C24_Step]_vars

C25_State ==
    /\ \A k \in 1..Len(test_results) : test_results[k].name = k
    /\ pc \in {"steps", "modes", "record"} => test_i = Len(test_results) + 1
    /\ (pc = "steps" /\ step_idx <= Len(test.steps)) => ~test_failed_during_setup

C25_Step ==
    /\ (pc = "test_begin" /\ pc' = "steps") =>
          /\ test_i' = test_i
          /\ test_dir' = IF test'.reset THEN {} ELSE test_dir
    /\ (pc = "steps" /\ step_idx <= Len(test.steps)) =>
          /\ test_dir' = test_dir \cup {<<test_i, step_idx>>}
          /\ (tests_failed' # tests_failed) =>
                /\ test_failed_during_setup'
                /\ pc' = "modes"
                /\ step_idx' = step_idx /\ repeat_idx' = repeat_idx
    /\ pc \in {"modes", "record"} => test_dir' = test_dir
    /\ (pc = "record" /\ pc' = "test_begin") => test_i' = test_i + 1

\* C25: the tests run in the order of the file, one after the other, in one
\* directory that keeps what earlier tests left in it; a test with reset
\* starts its steps in an empty directory; after the first command of a test
\* that fails fatally no further command of that test runs, neither a
\* remaining repeat nor a remaining step.
C25_FileOrderSharedDirectory == []C25_State /\ [][C25_Step]_vars

\* the second test, without reset, has failed in the first repeat of its
\* first step with a step and a repeat left, in the directory the first test
\* ran a command in
C25_Witness ==
    /\ pc = "modes"
    /\ test_i = 2
    /\ ~test.reset
    /\ <<1, 1>> \in test_dir
    /\ test_failed_during_setup
    /\ step_idx < Len(test.steps)
    /\ repeat_idx < test.steps[step_idx]

\* C26: between two tests the two counters add up to the number of tests
\* processed, and they are the numbers of entries of test_results marked
\* passed and not passed.
C26_CountersAgree ==
    pc = "test_begin" =>
        /\ tests_passed + tests_failed = Len(test_results)
        /\ tests_passed = Cardinality({k \in 1..Len(test_results) : test_results[k].passed})
        /\ tests_failed = Cardinality({k \in 1..Len(test_results) : ~test_results[k].passed})

----------------------------------------------------------------------------
(* Claims on termination, patching and the entry root *)

\* optional leading whitespace followed by the literal pattern
MatchesAfterBlanks(pattern, line) ==
    \E k \in 0..Len(line) :
        /\ \A j \in 1..k : line[j] = " "
        /\ Len(pattern) <= Len(line) - k
        /\ \A j \in 1..Len(pattern) : line[k + j] = pattern[j]

\* what a call has done to the list and returned
C23_Call ==
    LET hits == {i \in 1..Len(lines) : MatchesAfterBlanks(last_patch'.pattern, lines[i])} IN
    /\ Len(lines') = Len(original_lines)
    /\ last_patch'.success => last_patch'.line_num \in 1..Len(original_lines)
    /\ IF hits # {} /\ last_patch'.action \in {"comment", "remove"}
       THEN LET i == CHOOSE h \in hits : \A g \in hits : h <= g IN
            /\ last_patch'.success /\ last_patch'.line_num = i
            /\ lines'[i] # lines[i]
            /\ last_patch'.action = "remove" => lines'[i] = <<>>
            /\ \A j \in 1..Len(lines) : j # i => lines'[j] = lines[j]
       ELSE /\ ~last_patch'.success /\ last_patch'.line_num = -1
            /\ lines' = lines

\* C23 as stated: every call with 'comment' or 'remove' and a matching line
\* changes exactly the first matching entry and returns its 1-indexed
\* position in the original list; every other call changes nothing and
\* returns (False, -1).
C23_AsStated ==
    [][(pc = "patch_lines" /\ patch_idx' # patch_idx) => C23_Call]_vars

\* C23 for patterns that are not empty
C23_NonEmptyPattern ==
    [][(pc = "patch_lines" /\ patch_idx' # patch_idx /\ last_patch'.pattern # <<>>) => C23_Call]_vars

\* the second call removed the second line after the first line had been
\* blanked, and returned position 2
C23_Witness ==
    /\ pc = "patch_lines"
    /\ patch_idx = 2
    /\ lines[1] = <<>>
    /\ last_patch.pattern # <<>>
    /\ last_patch.action = "remove"
    /\ last_patch.success /\ last_patch.line_num = 2

\* C27: when apply_patches has returned -1, every file on disk is as it was
\* when the run started.
C27_NothingWrittenOnFailure ==
    (pc \in {"patch_returned", "patch_exit1"} /\ returned = -1) => disk = disk0

C28_State ==
    (pc \in {"impact", "done"} /\ main \notin DOMAIN call_graph) =>
        /\ main \notin symbols
        /\ reachable_from_main = {main}
        /\ \A i \in 1..Len(err) : err[i] \in ProgressMessages
        /\ pc = "done" =>
              {impacts[i].function : i \in 1..Len(impacts)} = {f \in Keys(func_refs) : f \in symbols}

C28_Step ==
    (pc \in {"build", "impact"} /\ todo = {} /\ main \notin DOMAIN call_graph) =>
        pc' \in {"impact", "done"}

\* C28: in a run whose catalog has no 'main', the traversal from 'main'
\* returns {'main'}, the run goes on to the ranking with nothing but the
\* progress lines on stderr, and the candidates are the referenced identifiers
\* that are in the catalog.
C28_MissingEntryRoot == []C28_State /\ [][C28_Step]_vars

\* a finished run without 'main' in the catalog that ranked two candidates
C28_Witness ==
    /\ pc = "done"
    /\ main \notin symbols
    /\ Len(impacts) >= 2

C22_State ==
    /\ pc # "blocked"
    /\ pc = "build" => DOMAIN call_graph = symbols \ todo

C22_Step ==
    (pc = "build" /\ todo # {}) =>
        LET func == last_disasm'.func IN
        /\ pc' = "build"
        /\ func \in todo
        /\ todo' = todo \ {func}
        /\ last_disasm'.hung => call_graph'[func] = {}

\* C22: every step of build_call_graph takes one symbol that was not yet
\* attempted and is done with it, also when its objdump call hangs: the
\* symbol then has no callees, is not attempted again, and the run is never
\* left waiting.
C22_NeverBlocked == []C22_State /\ [][C22_Step]_vars

\* the build has gone through a catalog of two or more symbols and the last
\* objdump call hung
C22_Witness ==
    /\ pc = "build"
    /\ todo = {}
    /\ last_disasm.hung
    /\ Cardinality(symbols) >= 2

C21_Step ==
    (pc = "bfs" /\ pc' = "bfs" /\ queue # <<>>) =>
        LET current == Head(queue)
            unvisited == Cardinality(ReachNodes \ reachable)
            unvisited_next == Cardinality(ReachNodes \ reachable')
        IN /\ reachable \subseteq reachable'
           /\ current \in reachable => (queue' = Tail(queue) /\ reachable' = reachable)
           /\ current \notin reachable => current \in reachable'
           /\ \/ unvisited_next < unvisited
              \/ (unvisited_next = unvisited /\ Len(queue') < Len(queue))

\* C21: every iteration of the traversal either visits a new symbol or
\* shortens the queue, so the loop ends on every graph; a dequeued symbol
\* that is already visited is dropped without being expanded, and an expanded
\* symbol is visited from then on.
C21_Terminates == [][C21_Step]_vars

\* a traversal has ended on a graph in which two reached symbols call each other
C21_Witness ==
    /\ pc = "bfs_done"
    /\ \E a, b \in reachable :
          /\ a # b
          /\ b \in Calls(call_graph, a)
          /\ a \in Calls(call_graph, b)

====
